---- MODULE Spec2Model ----
(***************************************************************************)
(* Voter verification -> ballot issuance -> vote casting.                  *)
(*                                                                         *)
(* The durable store (Verification, Ballot and Vote tables) is the shared  *)
(* state.  Every HTTP request runs in a request slot; each `await` on a    *)
(* store call that reads or writes a mutable table is one atomic step, so  *)
(* that concurrent requests interleave exactly at the await points of the  *)
(* handlers.  Reads of tables that no modelled operation writes (voters,   *)
(* positions, candidates) and pure computations (bcrypt) are folded into   *)
(* the neighbouring step; this removes no interleaving of the mutable      *)
(* tables.  Time is counted in minutes.                                    *)
(***************************************************************************)
EXTENDS Integers, Sequences, FiniteSets, Bags, TLC

VARIABLES
    now,            \* the wall clock (Date.now() / new Date()), in minutes
    verifications,  \* Verification table, in order of creation (id = index)
    ballots,        \* Ballot table, in order of creation (id = token = index)
    votes,          \* Vote table: the bag of its rows (ids and castAt left out)
    req,            \* request slots: the handler invocations in flight
    castOk,         \* the bag of tokens castVote has answered 200 for
    outbox,         \* per Verification: its email and SMS sends, and the
                    \* answer of the requestOTP that started them
    issued,         \* the tokens confirmOTP has returned to a client
    positions       \* Position table as the admin handlers write it, in
                    \* order of creation (id = index); dates in hours

vars == <<now, verifications, ballots, votes, req, castOk, outbox, issued,
          positions>>

----------------------------------------------------------------------------
(* Bounds of the model *)

MaxTime == 2
MaxVerifications == 2
MaxBallots == 2
MaxPositions == 1
MaxDate == 2

(* Program constants, in minutes *)

RateWindow == 2
OtpTtl == 5

\* Request slots, in the order new requests take them
SlotOrder == <<"s1", "s2">>

Slots == {SlotOrder[i] : i \in DOMAIN SlotOrder}

----------------------------------------------------------------------------
(* Static tables: rows no modelled operation writes *)

\* EligibleVoter rows, keyed by the stored (upper-case) regNo; voter.id is
\* identified with the regNo.
VoterTable ==
    [ R1 |-> [status |-> "ELIGIBLE", email |-> TRUE, phone |-> TRUE],
      R2 |-> [status |-> "INELIGIBLE", email |-> TRUE, phone |-> TRUE],
      R3 |-> [status |-> "ELIGIBLE", email |-> TRUE, phone |-> FALSE],
      R4 |-> [status |-> "ELIGIBLE", email |-> FALSE, phone |-> TRUE] ]

VoterIds == DOMAIN VoterTable

\* reg_no values a client may send
RegNoInputs == {"", "R1", "r1", "R2", "R3", "R9"}

\* String.prototype.toUpperCase on the inputs of the model
ToUpperCase(s) == IF s = "r1" THEN "R1" ELSE s

\* Position rows: voting window [votingOpens, votingCloses] in minutes
PositionTable ==
    [ P1 |-> [votingOpens |-> 0, votingCloses |-> 1],
      P2 |-> [votingOpens |-> 1, votingCloses |-> 9] ]

PositionIds == DOMAIN PositionTable

\* Candidate rows
CandidateTable ==
    [ C1 |-> [positionId |-> "P1", status |-> "APPROVED"],
      C2 |-> [positionId |-> "P2", status |-> "APPROVED"],
      C3 |-> [positionId |-> "P1", status |-> "APPROVED"],
      C4 |-> [positionId |-> "P1", status |-> "PENDING"] ]

CandidateIds == DOMAIN CandidateTable

\* One-time codes crypto.randomInt can draw
CodeOrder == <<"111111", "222222">>

Codes == {CodeOrder[i] : i \in DOMAIN CodeOrder}

\* bcrypt.hash: a one-way image of the code, never the code itself
Hash(code) == <<"bcrypt", code>>

\* A comparison that accepts every code
CompareAny(otp, otpHash) == TRUE

\* bcrypt.compare(otp, otpHash)
Compare(otp, otpHash) == Hash(otp) = otpHash

----------------------------------------------------------------------------
(* Helpers on sequences *)

Range(s) == {s[i] : i \in DOMAIN s}

\* votes.map(v => v.positionId), votes.map(v => v.candidateId)
PositionIdsOf(vs) == [i \in DOMAIN vs |-> vs[i].positionId]
CandidateIdsOf(vs) == [i \in DOMAIN vs |-> vs[i].candidateId]

Vote(p, c) == [positionId |-> p, candidateId |-> c]

\* The votes arrays a client may send
VoteLists ==
    { <<>>,
      <<Vote("P1", "C1")>>,
      <<Vote("P2", "C1")>>,
      <<Vote("P1", "C1"), Vote("P2", "C2")>>,
      <<Vote("P1", "C1"), Vote("P1", "C3")>>,
      <<Vote("P1", "C4")>> }

----------------------------------------------------------------------------
(* Request slots *)

NoVotes == <<>>

IdleSlot ==
    [ kind |-> "none", pc |-> "idle", voter |-> "", otp |-> "", token |-> 0,
      votes |-> NoVotes, ver |-> 0,
      status |-> 0, result |-> "", retryAfter |-> 0, count |-> 0,
      listed |-> {} ]

\* A handler that never sends its answer
RespondNever(slot, code, result) == slot

\* res.status(code).json(...): the handler is over; of its locals the slot
\* keeps what the answer is about
Respond(slot, code, result) ==
    [slot EXCEPT !.pc = "done", !.status = code, !.result = result,
                 !.otp = "", !.ver = 0, !.votes = NoVotes]

Busy(s) == req[s].pc \notin {"idle", "done"}

InFlight(kind) == {s \in Slots : req[s].kind = kind /\ Busy(s)}

\* A request arrives: it takes the first slot no handler runs in, and the
\* answers of the finished handlers have been read
CanStart(s) ==
    /\ ~Busy(s)
    /\ \A i, j \in DOMAIN SlotOrder : (i < j /\ SlotOrder[j] = s) => Busy(SlotOrder[i])

\* The slots after the handler in slot s has moved to `slot`; an answer is
\* kept until the next step of any handler or of the clock
Step(s, slot) ==
    [t \in Slots |-> IF t = s THEN slot ELSE IF Busy(t) THEN req[t] ELSE IdleSlot]

Init ==
    /\ now = 0
    /\ verifications = <<>>
    /\ ballots = <<>>
    /\ votes = EmptyBag
    /\ castOk = EmptyBag
    /\ outbox = <<>>
    /\ issued = {}
    /\ req = [s \in Slots |-> IdleSlot]
    /\ positions = <<>>

----------------------------------------------------------------------------
(* Queries of the store *)

\* A query that finds no CONSUMED ballot
ConsumedBallotsNone(voter) == {}

\* prisma.ballot.findFirst({where: {voterId, status: 'CONSUMED'}})
ConsumedBallots(voter) ==
    {b \in DOMAIN ballots :
        ballots[b].voterId = voter /\ ballots[b].status = "CONSUMED"}

\* A rate-limit query that leaves out the Challenge issued exactly 2 minutes
\* ago
RecentVerificationStrict(voter, t) ==
    {i \in DOMAIN verifications :
        /\ verifications[i].voterId = voter
        /\ verifications[i].issuedAt > t - RateWindow
        /\ verifications[i].verifiedAt = {}}

\* prisma.verification.findFirst of requestOTP: issued in the last 2 minutes
\* and not yet verified
RecentVerification(voter, t) ==
    {i \in DOMAIN verifications :
        /\ verifications[i].voterId = voter
        /\ verifications[i].issuedAt >= t - RateWindow
        /\ verifications[i].verifiedAt = {}}

\* A where clause without the filter on expiresAt
ValidVerificationsForever(voter, t) ==
    {i \in DOMAIN verifications :
        /\ verifications[i].voterId = voter
        /\ verifications[i].verifiedAt = {}
        /\ verifications[i].consumedAt = {}}

\* the where clause of prisma.verification.findFirst of confirmOTP
ValidVerifications(voter, t) ==
    {i \in DOMAIN verifications :
        /\ verifications[i].voterId = voter
        /\ verifications[i].verifiedAt = {}
        /\ verifications[i].consumedAt = {}
        /\ verifications[i].expiresAt >= t}

\* A findFirst without the orderBy: any of the rows
MostRecentAny(S) == S

\* orderBy issuedAt desc: the rows findFirst may return (rows with equal
\* issuedAt come in an order the database chooses)
MostRecent(S) ==
    {i \in S : \A j \in S : verifications[j].issuedAt <= verifications[i].issuedAt}

\* prisma.position.findMany({where: {id in ids, votingOpens <= t, votingCloses >= t}})
OpenPositions(ids, t) ==
    {p \in PositionIds \cap Range(ids) :
        PositionTable[p].votingOpens <= t /\ PositionTable[p].votingCloses >= t}

\* prisma.position.findMany without id filter, as getBallot lists them
ListOpenPositions(t) ==
    {p \in PositionIds :
        PositionTable[p].votingOpens <= t /\ PositionTable[p].votingCloses >= t}

\* allPositions.filter(p => now < p.votingOpens || now > p.votingCloses)
ClosedPositions(ids, t) ==
    {p \in PositionIds \cap Range(ids) :
        t < PositionTable[p].votingOpens \/ t > PositionTable[p].votingCloses}

\* prisma.candidate.findMany({where: {id in ids, status: 'APPROVED'}})
ApprovedCandidates(ids) ==
    {c \in CandidateIds \cap Range(ids) : CandidateTable[c].status = "APPROVED"}

\* A status check that never finds the Ballot used
BallotUsedNever(b) == FALSE

\* ballot.status === 'CONSUMED'
BallotUsed(b) == b.status = "CONSUMED"

\* prisma.vote.findMany({where: {ballotId, positionId in ids}})
ExistingVotes(ballotId, ids) ==
    {v \in BagToSet(votes) :
        v.ballotId = ballotId /\ v.positionId \in Range(ids)}

\* Checks that ask for every targeted position to be open and every chosen
\* candidate to be approved, without comparing counts
CastValidationLax(vs, t) ==
    IF Range(PositionIdsOf(vs)) # OpenPositions(PositionIdsOf(vs), t)
      THEN "WINDOW_CLOSED"
    ELSE IF Range(CandidateIdsOf(vs)) # ApprovedCandidates(CandidateIdsOf(vs))
      THEN "INVALID_CANDIDATE"
    ELSE "OK"

\* The checks castVote runs on the submission between reading the ballot and
\* reading the Vote table, in the order of the code
CastValidation(vs, t) ==
    IF Cardinality(OpenPositions(PositionIdsOf(vs), t)) # Len(vs)
      THEN "WINDOW_CLOSED"
    ELSE IF Cardinality(ApprovedCandidates(CandidateIdsOf(vs))) # Len(vs)
      THEN "INVALID_CANDIDATE"
    ELSE IF Cardinality(Range(PositionIdsOf(vs))) # Len(vs)
      THEN "REPEATED_POSITION"
    ELSE "OK"

\* The rows votes.map(vote => prisma.vote.create(...)) inserts
VoteRows(ballotId, vs) ==
    [i \in DOMAIN vs |->
        [ballotId |-> ballotId, positionId |-> vs[i].positionId,
         candidateId |-> vs[i].candidateId]]

\* A Vote table without the uniqueness of (ballot, position)
VoteUniqueOff(table, rows) == TRUE

\* The Vote table's uniqueness of (ballot, position): whether the table
\* accepts `rows` on top of `table`
VoteUnique(table, rows) ==
    /\ \A i, j \in DOMAIN rows :
          (rows[i].ballotId = rows[j].ballotId /\ rows[i].positionId = rows[j].positionId)
              => i = j
    /\ \A i \in DOMAIN rows : \A v \in BagToSet(table) :
          ~(rows[i].ballotId = v.ballotId /\ rows[i].positionId = v.positionId)

\* The table after the inserts of `rows`
RECURSIVE InsertRows(_, _)
InsertRows(table, rows) ==
    IF rows = <<>> THEN table
    ELSE InsertRows(table (+) SetToBag({Head(rows)}), Tail(rows))

----------------------------------------------------------------------------
(* requestOTP *)

\* lines 21-38: body validation and the voter lookup
RequestOTP(s, regNo) ==
    /\ CanStart(s)
    /\ Len(verifications) + Cardinality(InFlight("requestOTP")) < MaxVerifications
    /\ LET id == ToUpperCase(regNo)
           slot == [IdleSlot EXCEPT !.kind = "requestOTP", !.voter = id]
       IN req' = Step(s,
              IF regNo = "" THEN Respond(slot, 400, "REG_NO_REQUIRED")
              ELSE IF id \notin VoterIds THEN Respond(slot, 404, "NOT_FOUND")
              ELSE IF VoterTable[id].status # "ELIGIBLE"
                THEN Respond(slot, 400, "INELIGIBLE")
              ELSE [slot EXCEPT !.pc = "otp_voted"])
    /\ UNCHANGED <<now, verifications, ballots, votes, castOk, outbox, issued, positions>>

\* lines 40-53: has the voter a CONSUMED ballot
OtpCheckVoted(s) ==
    /\ req[s].kind = "requestOTP" /\ req[s].pc = "otp_voted"
    /\ req' = Step(s,
          IF ConsumedBallots(req[s].voter) # {}
            THEN Respond(req[s], 400, "ALREADY_VOTED")
            ELSE [req[s] EXCEPT !.pc = "otp_rate"])
    /\ UNCHANGED <<now, verifications, ballots, votes, castOk, outbox, issued, positions>>

\* lines 55-74: the rate limit
OtpRateLimit(s) ==
    /\ req[s].kind = "requestOTP" /\ req[s].pc = "otp_rate"
    /\ req' = Step(s,
          IF RecentVerification(req[s].voter, now) # {}
            THEN [Respond(req[s], 429, "RATE_LIMITED") EXCEPT !.retryAfter = 120]
            ELSE [req[s] EXCEPT !.pc = "otp_create"])
    /\ UNCHANGED <<now, verifications, ballots, votes, castOk, outbox, issued, positions>>

\* crypto.randomInt(100000, 999999): any code.  The codes are
\* interchangeable, so a draw is a code drawn before or the first one never
\* drawn.
DrawableCodes ==
    LET used == {c \in Codes : \E i \in DOMAIN verifications :
                                  verifications[i].otpHash = Hash(c)}
    IN used \cup {CodeOrder[i] : i \in {j \in DOMAIN CodeOrder :
                        \A k \in 1 .. (j - 1) : CodeOrder[k] \in used}}

\* A Verification row whose expiry is the instant of its creation
NewVerificationShort(voter, code, t) ==
    [ voterId |-> voter, otpHash |-> Hash(code), issuedAt |-> t,
      expiresAt |-> t, verifiedAt |-> {}, consumedAt |-> {},
      ballotToken |-> {} ]

\* The Verification row of lines 99-106; issuedAt is the column default now()
NewVerification(voter, code, t) ==
    [ voterId |-> voter, otpHash |-> Hash(code), issuedAt |-> t,
      expiresAt |-> t + OtpTtl, verifiedAt |-> {}, consumedAt |-> {},
      ballotToken |-> {} ]

\* Sends of which the SMS is not started
DispatchEmailOnly == [email |-> "pending", sms |-> "none"]

\* The sends lines 112-158 start: sendOTPEmail(...) and sendOTPSMS(...) are
\* called one after the other and neither promise is awaited
Dispatch == [email |-> "pending", sms |-> "pending"]

\* sentMethods: the channels whose .then callback has run
SentMethods(sends) ==
    {ch \in {"email", "sms"} : sends[ch] = "sent"}

\* lines 160-210: the answer requestOTP gives for the sentMethods it reads
DeliveryAnswer(sent) == IF sent = {} THEN 500 ELSE 200

\* A requestOTP that creates the Verification and starts the sends without
\* looking at the contacts of the voter
OtpCreateUnchecked(s) ==
    /\ req[s].kind = "requestOTP" /\ req[s].pc = "otp_create"
    /\ \E code \in DrawableCodes :
          LET answer == DeliveryAnswer(SentMethods(Dispatch)) IN
          /\ verifications' =
                Append(verifications, NewVerification(req[s].voter, code, now))
          /\ outbox' = Append(outbox,
                [email |-> Dispatch.email, sms |-> Dispatch.sms,
                 answer |-> answer])
          /\ req' = Step(s,
                Respond(req[s], answer,
                    IF answer = 200 THEN "OTP_SENT" ELSE "DELIVERY_FAILED"))
    /\ UNCHANGED <<now, ballots, votes, castOk, issued, positions>>

\* lines 76-210: draw and hash the code, check the contacts, create the
\* Verification, start both sends and answer.  No await stands between the
\* start of the sends and line 161, so the callbacks that fill sentMethods
\* have not run when it is read.
OtpCreate(s) ==
    /\ req[s].kind = "requestOTP" /\ req[s].pc = "otp_create"
    /\ LET voter == req[s].voter IN
       IF ~VoterTable[voter].email
         THEN /\ req' = Step(s, Respond(req[s], 400, "EMAIL_MISSING"))
              /\ UNCHANGED <<verifications, outbox>>
       ELSE IF ~VoterTable[voter].phone
         THEN /\ req' = Step(s, Respond(req[s], 400, "PHONE_MISSING"))
              /\ UNCHANGED <<verifications, outbox>>
       ELSE \E code \in DrawableCodes :
              LET answer == DeliveryAnswer(SentMethods(Dispatch)) IN
              /\ verifications' = Append(verifications, NewVerification(voter, code, now))
              /\ outbox' = Append(outbox,
                    [email |-> Dispatch.email, sms |-> Dispatch.sms,
                     answer |-> answer])
              /\ req' = Step(s,
                    Respond(req[s], answer,
                        IF answer = 200 THEN "OTP_SENT" ELSE "DELIVERY_FAILED"))
    /\ UNCHANGED <<now, ballots, votes, castOk, issued, positions>>

\* lines 113-134: the email send of Verification i settles, after the answer
EmailSettles(i, outcome) ==
    /\ i \in DOMAIN outbox /\ outbox[i].email = "pending"
    /\ outbox' = [outbox EXCEPT ![i].email = outcome]
    /\ req' = [t \in Slots |-> IF Busy(t) THEN req[t] ELSE IdleSlot]
    /\ UNCHANGED <<now, verifications, ballots, votes, castOk, issued, positions>>

\* lines 137-158: the SMS send of Verification i settles, after the answer
SmsSettles(i, outcome) ==
    /\ i \in DOMAIN outbox /\ outbox[i].sms = "pending"
    /\ outbox' = [outbox EXCEPT ![i].sms = outcome]
    /\ req' = [t \in Slots |-> IF Busy(t) THEN req[t] ELSE IdleSlot]
    /\ UNCHANGED <<now, verifications, ballots, votes, castOk, issued, positions>>

----------------------------------------------------------------------------
(* confirmOTP *)

\* lines 229-242: body validation and the voter lookup
ConfirmOTP(s, regNo, otp) ==
    /\ CanStart(s)
    /\ Len(ballots) + Cardinality(InFlight("confirmOTP")) < MaxBallots
    /\ LET id == ToUpperCase(regNo)
           slot == [IdleSlot EXCEPT !.kind = "confirmOTP", !.voter = id, !.otp = otp]
       IN req' = Step(s,
              IF regNo = "" \/ otp = "" THEN Respond(slot, 400, "REG_NO_AND_OTP_REQUIRED")
              ELSE IF id \notin VoterIds THEN Respond(slot, 404, "NOT_FOUND")
              ELSE [slot EXCEPT !.pc = "cf_find"])
    /\ UNCHANGED <<now, verifications, ballots, votes, castOk, outbox, issued, positions>>

\* lines 244-268: find the newest valid Verification and compare the code;
\* a wrong code is answered after the audit write of lines 270-276
CfFind(s) ==
    /\ req[s].kind = "confirmOTP" /\ req[s].pc = "cf_find"
    /\ LET valid == ValidVerifications(req[s].voter, now) IN
       IF valid = {}
         THEN req' = Step(s, Respond(req[s], 400, "NO_VALID_OTP"))
         ELSE \E i \in MostRecent(valid) :
                req' = Step(s,
                    IF Compare(req[s].otp, verifications[i].otpHash)
                      THEN [req[s] EXCEPT !.pc = "cf_voted", !.ver = i]
                      ELSE [req[s] EXCEPT !.pc = "cf_audit", !.status = 401,
                                          !.result = "INVALID_OTP"])
    /\ UNCHANGED <<now, verifications, ballots, votes, castOk, outbox, issued, positions>>

\* lines 281-293: has the voter a CONSUMED ballot
CfCheckVoted(s) ==
    /\ req[s].kind = "confirmOTP" /\ req[s].pc = "cf_voted"
    /\ req' = Step(s,
          IF ConsumedBallots(req[s].voter) # {}
            THEN Respond(req[s], 400, "ALREADY_VOTED")
            ELSE [req[s] EXCEPT !.pc = "cf_verify"])
    /\ UNCHANGED <<now, verifications, ballots, votes, castOk, outbox, issued, positions>>

\* lines 295-301: mark the Verification verified
CfMarkVerified(s) ==
    /\ req[s].kind = "confirmOTP" /\ req[s].pc = "cf_verify"
    /\ verifications' = [verifications EXCEPT ![req[s].ver].verifiedAt = {now}]
    /\ req' = Step(s, [req[s] EXCEPT !.pc = "cf_create"])
    /\ UNCHANGED <<now, ballots, votes, castOk, outbox, issued, positions>>

\* A Ballot row created with the status of a used ballot
NewBallotConsumed(voter) ==
    [voterId |-> voter, status |-> "CONSUMED", consumedAt |-> {}]

\* The Ballot row of lines 307-313
NewBallot(voter) ==
    [voterId |-> voter, status |-> "ACTIVE", consumedAt |-> {}]

\* lines 303-313: draw the token and create the Ballot.  The 32 random bytes
\* are a value no earlier Ballot has: the index of the new row.
CfCreateBallot(s) ==
    /\ req[s].kind = "confirmOTP" /\ req[s].pc = "cf_create"
    /\ ballots' = Append(ballots, NewBallot(req[s].voter))
    /\ req' = Step(s, [req[s] EXCEPT !.pc = "cf_link", !.token = Len(ballots) + 1])
    /\ UNCHANGED <<now, verifications, votes, castOk, outbox, issued, positions>>

\* lines 307-313 and 342-345: prisma.ballot.create throws (the store is
\* unreachable); the catch block answers 500 and verifiedAt stays set
CfCreateBallotFails(s) ==
    /\ req[s].kind = "confirmOTP" /\ req[s].pc = "cf_create"
    /\ req' = Step(s, Respond(req[s], 500, "CONFIRM_FAILED"))
    /\ UNCHANGED <<now, verifications, ballots, votes, castOk, outbox, issued, positions>>

\* lines 315-321: record the token on the Verification; the answer follows
\* the audit write of lines 324-334
CfLink(s) ==
    /\ req[s].kind = "confirmOTP" /\ req[s].pc = "cf_link"
    /\ verifications' =
          [verifications EXCEPT ![req[s].ver].ballotToken = {req[s].token}]
    /\ req' = Step(s, [req[s] EXCEPT !.pc = "cf_audit", !.status = 200,
                                     !.result = "BALLOT_ISSUED"])
    /\ UNCHANGED <<now, ballots, votes, castOk, outbox, issued, positions>>

\* lines 270-278 and 324-341: `await logAudit(...)` returns and the handler
\* answers; a 200 hands the token to the client
CfAudit(s) ==
    /\ req[s].kind = "confirmOTP" /\ req[s].pc = "cf_audit"
    /\ req' = Step(s, Respond(req[s], req[s].status, req[s].result))
    /\ issued' = IF req[s].status = 200 THEN issued \cup {req[s].token} ELSE issued
    /\ UNCHANGED <<now, verifications, ballots, votes, castOk, outbox, positions>>

----------------------------------------------------------------------------
(* getBallot *)

\* A token no Ballot has
UnknownToken == Len(ballots) + 1

\* The tokens a client may send: the ones it was given and one it was not; 0
\* stands for a missing token
TokenInputs == {0, UnknownToken} \cup issued

\* part_004 lines 8-93
GetBallot(s, token) ==
    /\ CanStart(s)
    /\ LET slot == [IdleSlot EXCEPT !.kind = "getBallot", !.token = token]
       IN req' = Step(s,
              IF token = 0 THEN Respond(slot, 400, "TOKEN_REQUIRED")
              ELSE IF token \notin DOMAIN ballots
                THEN Respond(slot, 404, "INVALID_TOKEN")
              ELSE IF BallotUsed(ballots[token])
                THEN Respond(slot, 400, "ALREADY_VOTED")
              ELSE [Respond(slot, 200, "BALLOT") EXCEPT
                        !.listed = ListOpenPositions(now)])
    /\ UNCHANGED <<now, verifications, ballots, votes, castOk, outbox, issued, positions>>

----------------------------------------------------------------------------
(* castVote *)

\* part_004 lines 101-198 without the second position query: body
\* validation, the ballot lookup, and the window, candidate and
\* repeated-position checks at the instant read on line 136
CastVote(s, token, vs) ==
    /\ CanStart(s)
    /\ LET slot == [IdleSlot EXCEPT !.kind = "castVote", !.token = token,
                                    !.votes = vs]
           check == CastValidation(vs, now)
       IN req' = Step(s,
              IF token = 0 THEN Respond(slot, 400, "TOKEN_REQUIRED")
              ELSE IF vs = <<>> THEN Respond(slot, 400, "VOTES_REQUIRED")
              ELSE IF token \notin DOMAIN ballots
                THEN Respond(slot, 404, "INVALID_TOKEN")
              ELSE IF BallotUsed(ballots[token])
                THEN Respond(slot, 400, "ALREADY_VOTED")
              ELSE IF check = "WINDOW_CLOSED" THEN [slot EXCEPT !.pc = "cv_closed"]
              ELSE IF check # "OK" THEN Respond(slot, 400, check)
              ELSE [slot EXCEPT !.pc = "cv_existing"])
    /\ UNCHANGED <<now, verifications, ballots, votes, castOk, outbox, issued, positions>>

\* lines 151-176: the answer of a failed window check, with the positions
\* that are closed at the instant read on line 161
CastReportClosed(s) ==
    /\ req[s].kind = "castVote" /\ req[s].pc = "cv_closed"
    /\ req' = Step(s,
          [Respond(req[s], 400, "WINDOW_CLOSED") EXCEPT
              !.listed = ClosedPositions(PositionIdsOf(req[s].votes), now)])
    /\ UNCHANGED <<now, verifications, ballots, votes, castOk, outbox, issued, positions>>

\* lines 200-212: has the ballot a Vote for one of the positions
CastExisting(s) ==
    /\ req[s].kind = "castVote" /\ req[s].pc = "cv_existing"
    /\ req' = Step(s,
          IF ExistingVotes(req[s].token, PositionIdsOf(req[s].votes)) # {}
            THEN Respond(req[s], 400, "DUPLICATE_VOTE")
            ELSE [req[s] EXCEPT !.pc = "cv_tx"])
    /\ UNCHANGED <<now, verifications, ballots, votes, castOk, outbox, issued, positions>>

\* lines 214-225: prisma.$transaction of the creates; a row the table
\* refuses rolls all of them back and throws (lines 258-261)
CastTransaction(s) ==
    /\ req[s].kind = "castVote" /\ req[s].pc = "cv_tx"
    /\ LET rows == VoteRows(req[s].token, req[s].votes) IN
       IF VoteUnique(votes, rows)
         THEN /\ votes' = InsertRows(votes, rows)
              /\ req' = Step(s, [req[s] EXCEPT !.pc = "cv_update", !.count = Len(rows)])
         ELSE /\ votes' = votes
              /\ req' = Step(s, Respond(req[s], 500, "CAST_FAILED"))
    /\ UNCHANGED <<now, verifications, ballots, castOk, outbox, issued, positions>>

\* An update that sets consumedAt and leaves the status
ConsumeBallotKeepsStatus(b, t) ==
    [b EXCEPT !.consumedAt = {t}]

\* The Ballot row after prisma.ballot.update of lines 228-234
ConsumeBallot(b, t) ==
    [b EXCEPT !.status = "CONSUMED", !.consumedAt = {t}]

\* lines 227-257: mark the Ballot consumed and answer
CastConsume(s) ==
    /\ req[s].kind = "castVote" /\ req[s].pc = "cv_update"
    /\ ballots' = [ballots EXCEPT ![req[s].token] = ConsumeBallot(@, now)]
    /\ req' = Step(s, Respond(req[s], 200, "VOTE_CAST"))
    /\ castOk' = castOk (+) SetToBag({req[s].token})
    /\ UNCHANGED <<now, verifications, votes, outbox, issued, positions>>

\* A handler that answers 400 when the update throws after the Vote rows were
\* committed
CastConsumeRejects(s) ==
    /\ req[s].kind = "castVote" /\ req[s].pc = "cv_update"
    /\ req' = Step(s, Respond(req[s], 400, "DUPLICATE_VOTE"))
    /\ UNCHANGED <<now, verifications, ballots, votes, castOk, outbox, issued, positions>>

\* lines 228-234 and 258-261: prisma.ballot.update throws (the store is
\* unreachable, the process is stopped): the Vote rows are already committed
CastConsumeFails(s) ==
    /\ req[s].kind = "castVote" /\ req[s].pc = "cv_update"
    /\ req' = Step(s, Respond(req[s], 500, "CAST_FAILED"))
    /\ UNCHANGED <<now, verifications, ballots, votes, castOk, outbox, issued, positions>>

----------------------------------------------------------------------------
(* The environment *)

\* A minute passes
Tick ==
    /\ now < MaxTime
    /\ now' = now + 1
    /\ req' = [t \in Slots |-> IF Busy(t) THEN req[t] ELSE IdleSlot]
    /\ UNCHANGED <<verifications, ballots, votes, castOk, outbox, issued, positions>>

\* The request bodies a client may send: every body with a known voter or
\* token, and one body for each way of being rejected before the store is
\* read
RequestBodies == RegNoInputs

ConfirmBodies ==
    {[regNo |-> r, otp |-> c] : r \in {"R1", "r1"}, c \in Codes}
        \cup {[regNo |-> "", otp |-> CodeOrder[1]], [regNo |-> "R1", otp |-> ""],
              [regNo |-> "R9", otp |-> CodeOrder[1]],
              [regNo |-> "R2", otp |-> CodeOrder[1]]}

CastBodies ==
    {[token |-> t, votes |-> vs] : t \in issued, vs \in VoteLists}
        \cup {[token |-> t, votes |-> <<Vote("P1", "C1")>>] : t \in {0, UnknownToken}}

\* requestOTP and confirmOTP with any of the bodies
OtpNext ==
    \E s \in Slots :
        \/ \E regNo \in RequestBodies : RequestOTP(s, regNo)
        \/ OtpCheckVoted(s)
        \/ OtpRateLimit(s)
        \/ OtpCreate(s)
        \/ \E b \in ConfirmBodies : ConfirmOTP(s, b.regNo, b.otp)
        \/ CfFind(s)
        \/ CfCheckVoted(s)
        \/ CfMarkVerified(s)
        \/ CfCreateBallot(s)
        \/ CfLink(s)
        \/ CfAudit(s)

\* A getBallot request arrives
GetBallotRequest(s) == \E token \in TokenInputs : GetBallot(s, token)

\* A castVote request arrives
CastVoteRequest(s) == \E b \in CastBodies : CastVote(s, b.token, b.votes)

\* getBallot and castVote with any of the bodies
VoteNext ==
    \E s \in Slots :
        \/ GetBallotRequest(s)
        \/ CastVoteRequest(s)
        \/ CastReportClosed(s)
        \/ CastExisting(s)
        \/ CastTransaction(s)
        \/ CastConsume(s)
        \/ CastConsumeFails(s)

\* The bodies of the pipeline: voter R1 with either code, and the issued
\* tokens with a vote for the position that is open in minute 0 or for the
\* one that is not
PipelineConfirms == {[regNo |-> "R1", otp |-> c] : c \in Codes}

PipelineCasts ==
    {[token |-> t, votes |-> vs] :
        t \in issued, vs \in {<<Vote("P1", "C1")>>, <<Vote("P2", "C2")>>}}

\* A castVote request with an issued token arrives
PipelineCastVote(s) == \E b \in PipelineCasts : CastVote(s, b.token, b.votes)

\* The whole pipeline from an empty store, all requests within one minute.
\* getBallot writes nothing and is left to the voting specification.
Next ==
    \E s \in Slots :
        \/ RequestOTP(s, "R1")
        \/ OtpCheckVoted(s)
        \/ OtpRateLimit(s)
        \/ OtpCreate(s)
        \/ \E b \in PipelineConfirms : ConfirmOTP(s, b.regNo, b.otp)
        \/ CfFind(s)
        \/ CfCheckVoted(s)
        \/ CfMarkVerified(s)
        \/ CfCreateBallot(s)
        \/ CfLink(s)
        \/ CfAudit(s)
        \/ PipelineCastVote(s)
        \/ CastReportClosed(s)
        \/ CastExisting(s)
        \/ CastTransaction(s)
        \/ CastConsume(s)
        \/ CastConsumeFails(s)

Spec == Init /\ [][Next]_vars

\* Verification alone, while the clock runs
SpecOtp == Init /\ [][OtpNext \/ Tick]_vars

\* The outcomes of a send
Outcomes == {"sent", "failed"}

\* The request bodies, with the voter who has no email address
NotifyBodies == RequestBodies \cup {"R4"}

\* requestOTP and the sends it starts, while the clock runs
NotifyNext ==
    \/ \E s \in Slots :
          \/ \E regNo \in NotifyBodies : RequestOTP(s, regNo)
          \/ OtpCheckVoted(s)
          \/ OtpRateLimit(s)
          \/ OtpCreate(s)
    \/ \E i \in 1 .. MaxVerifications, outcome \in Outcomes :
          \/ EmailSettles(i, outcome)
          \/ SmsSettles(i, outcome)
    \/ Tick

SpecNotify == Init /\ [][NotifyNext]_vars

\* confirmOTP with any of the bodies
ConfirmNext ==
    \E s \in Slots :
        \/ \E b \in ConfirmBodies : ConfirmOTP(s, b.regNo, b.otp)
        \/ CfFind(s)
        \/ CfCheckVoted(s)
        \/ CfMarkVerified(s)
        \/ CfCreateBallot(s)
        \/ CfLink(s)
        \/ CfAudit(s)

\* The store one minute before the Challenge of voter R1 expires
InitExpiry ==
    /\ now = 0
    /\ verifications = <<NewVerification("R1", CodeOrder[1], 1 - OtpTtl)>>
    /\ outbox = <<[email |-> Dispatch.email, sms |-> Dispatch.sms, answer |-> 500]>>
    /\ ballots = <<>>
    /\ votes = EmptyBag
    /\ castOk = EmptyBag
    /\ issued = {}
    /\ req = [s \in Slots |-> IdleSlot]
    /\ positions = <<>>

\* Confirmation around the expiry of the Challenge
SpecExpiry == InitExpiry /\ [][ConfirmNext \/ Tick]_vars

\* Confirmation when the store may fail between the writes of confirmOTP
SpecPartial ==
    InitExpiry
        /\ [][ConfirmNext \/ (\E s \in Slots : CfCreateBallotFails(s)) \/ Tick]_vars

\* The store after voter R2 has requested a code while ELIGIBLE; the roster
\* has set R2 to INELIGIBLE since (the status VoterTable shows)
InitRevoked ==
    /\ now = 0
    /\ verifications = <<NewVerification("R2", CodeOrder[1], 0)>>
    /\ outbox = <<[email |-> Dispatch.email, sms |-> Dispatch.sms, answer |-> 500]>>
    /\ ballots = <<>>
    /\ votes = EmptyBag
    /\ castOk = EmptyBag
    /\ issued = {}
    /\ req = [s \in Slots |-> IdleSlot]
    /\ positions = <<>>

\* Confirmation after the voter's status was revoked
SpecRevoked == InitRevoked /\ [][ConfirmNext \/ Tick]_vars

\* The store after voter R1 has requested and confirmed a code in minute 0
InitVote ==
    /\ now = 0
    /\ verifications =
          <<[NewVerification("R1", CodeOrder[1], 0) EXCEPT
                !.verifiedAt = {0}, !.ballotToken = {1}]>>
    /\ ballots = <<NewBallot("R1")>>
    /\ votes = EmptyBag
    /\ castOk = EmptyBag
    /\ outbox = <<[email |-> Dispatch.email, sms |-> Dispatch.sms, answer |-> 500]>>
    /\ issued = {1}
    /\ req = [s \in Slots |-> IdleSlot]
    /\ positions = <<>>

\* Voting with the issued ballot, while the clock runs
SpecVote == InitVote /\ [][VoteNext \/ Tick]_vars

----------------------------------------------------------------------------
(* Position administration: createPosition, updatePosition, extendTime *)

\* Date strings an admin may send: a datetime-local value (no zone), a value
\* ending in Z, and a value with the offset +01:00; `local` is the hour the
\* string shows.  The instants they name are 0, 1 and MaxDate
DateInputs ==
    { [local |-> 0, zone |-> ""], [local |-> 1, zone |-> "Z"],
      [local |-> MaxDate + 1, zone |-> "+01:00"] }

\* parseDate: a string without zone is read as UTC (Z is appended), a string
\* with a zone as the instant it names
parseDate(d) == IF d.zone = "+01:00" THEN d.local - 1 ELSE d.local

\* A body field that is absent (or empty, which is as falsy), or present
Optional(S) == {{}} \cup {{x} : x \in S}

\* The date fields of the bodies of createPosition and updatePosition
PositionBodies ==
    [nominationOpens : Optional(DateInputs), nominationCloses : Optional(DateInputs),
     votingOpens : Optional(DateInputs), votingCloses : Optional(DateInputs)]

\* The one element of a present field
The(field) == CHOOSE x \in field : TRUE

\* lines 96-123 of createPosition: the answer to a body, before the insert;
\* `named` is whether the body has name and seats
CreateValidation(role, named, b) ==
    IF role # "ADMIN" THEN "FORBIDDEN"
    ELSE IF \/ ~named
            \/ {} \in {b.nominationOpens, b.nominationCloses, b.votingOpens, b.votingCloses}
      THEN "FIELDS_REQUIRED"
    ELSE LET nomOpen == parseDate(The(b.nominationOpens))
             nomClose == parseDate(The(b.nominationCloses))
             voteOpen == parseDate(The(b.votingOpens))
             voteClose == parseDate(The(b.votingCloses))
         IN IF nomClose <= nomOpen THEN "NOMINATION_ORDER"
            ELSE IF voteClose <= voteOpen THEN "VOTING_ORDER"
            ELSE IF voteOpen < nomClose THEN "VOTING_BEFORE_NOMINATION_END"
            ELSE "OK"

\* lines 93-155: createPosition; the one store statement is the insert
createPosition(s, role, named, b) ==
    /\ CanStart(s)
    /\ Len(positions) < MaxPositions
    /\ LET slot == [IdleSlot EXCEPT !.kind = "createPosition"]
           v == CreateValidation(role, named, b)
       IN IF v = "OK"
            THEN /\ positions' = Append(positions,
                        [nominationOpens |-> parseDate(The(b.nominationOpens)),
                         nominationCloses |-> parseDate(The(b.nominationCloses)),
                         votingOpens |-> parseDate(The(b.votingOpens)),
                         votingCloses |-> parseDate(The(b.votingCloses))])
                 /\ req' = Step(s, Respond(slot, 201, "CREATED"))
            ELSE /\ req' = Step(s, Respond(slot, IF v = "FORBIDDEN" THEN 403 ELSE 400, v))
                 /\ UNCHANGED positions
    /\ UNCHANGED <<now, verifications, ballots, votes, castOk, outbox, issued>>

\* lines 172-188 of updatePosition: a pair of dates is compared only when
\* the body has both of them
UpdateValidation(b) ==
    IF /\ b.nominationOpens # {} /\ b.nominationCloses # {}
       /\ parseDate(The(b.nominationCloses)) <= parseDate(The(b.nominationOpens))
      THEN "NOMINATION_ORDER"
    ELSE IF /\ b.votingOpens # {} /\ b.votingCloses # {}
            /\ parseDate(The(b.votingCloses)) <= parseDate(The(b.votingOpens))
      THEN "VOTING_ORDER"
    ELSE "OK"

\* lines 190-200: the columns prisma.position.update writes are the fields
\* the body has
UpdatedRow(row, b) ==
    [nominationOpens |->
        IF b.nominationOpens # {} THEN parseDate(The(b.nominationOpens))
        ELSE row.nominationOpens,
     nominationCloses |->
        IF b.nominationCloses # {} THEN parseDate(The(b.nominationCloses))
        ELSE row.nominationCloses,
     votingOpens |->
        IF b.votingOpens # {} THEN parseDate(The(b.votingOpens)) ELSE row.votingOpens,
     votingCloses |->
        IF b.votingCloses # {} THEN parseDate(The(b.votingCloses)) ELSE row.votingCloses]

\* lines 158-220: updatePosition.  The row findUnique reads is used for the
\* 404 only, so the lookup and the update are one step
updatePosition(s, id, b) ==
    /\ CanStart(s)
    /\ LET slot == [IdleSlot EXCEPT !.kind = "updatePosition"]
       IN IF id \notin DOMAIN positions
            THEN /\ req' = Step(s, Respond(slot, 404, "NOT_FOUND"))
                 /\ UNCHANGED positions
          ELSE IF UpdateValidation(b) # "OK"
            THEN /\ req' = Step(s, Respond(slot, 400, UpdateValidation(b)))
                 /\ UNCHANGED positions
          ELSE /\ positions' = [positions EXCEPT ![id] = UpdatedRow(positions[id], b)]
               /\ req' = Step(s, Respond(slot, 200, "UPDATED"))
    /\ UNCHANGED <<now, verifications, ballots, votes, castOk, outbox, issued>>

\* Values of extendNominationHours and extendVotingHours a client may send
HoursInputs == {"abc", "-1", "0.5", "1"}

\* parseFloat, in half hours; "abc" gives NaN
IsNaN(text) == text = "abc"

ParseHalfHours(text) ==
    CASE text = "-1" -> -2 [] text = "0.5" -> 1 [] text = "1" -> 2 [] OTHER -> 0

\* date.setHours(date.getHours() + hours): setHours takes the integer part
\* of its argument
SetHours(date, text) == date + (ParseHalfHours(text) \div 2)

\* The bodies of extendTime; an absent field is undefined
ExtendBodies ==
    [extendNominationHours : Optional(HoursInputs),
     extendVotingHours : Optional(HoursInputs)]

\* lines 324-359 of extendTime: the answer to a body for the row read
ExtendValidation(row, b) ==
    IF b.extendNominationHours = {} /\ b.extendVotingHours = {} THEN "EXTENSION_REQUIRED"
    ELSE IF /\ b.extendNominationHours # {}
            /\ \/ IsNaN(The(b.extendNominationHours))
               \/ ParseHalfHours(The(b.extendNominationHours)) <= 0
      THEN "NOMINATION_HOURS"
    ELSE IF /\ b.extendVotingHours # {}
            /\ \/ IsNaN(The(b.extendVotingHours))
               \/ ParseHalfHours(The(b.extendVotingHours)) <= 0
      THEN "VOTING_HOURS"
    ELSE IF (IF b.extendNominationHours # {}
               THEN SetHours(row.nominationCloses, The(b.extendNominationHours))
               ELSE row.nominationCloses) > row.votingOpens
      THEN "NOMINATION_BEYOND_VOTING"
    ELSE "OK"

\* lines 328-350: updateData, the new close dates computed from the row read
ExtendData(row, b) ==
    [nominationCloses |->
        IF b.extendNominationHours = {} THEN {}
        ELSE {SetHours(row.nominationCloses, The(b.extendNominationHours))},
     votingCloses |->
        IF b.extendVotingHours = {} THEN {}
        ELSE {SetHours(row.votingCloses, The(b.extendVotingHours))}]

\* lines 362-365: the row after prisma.position.update writes updateData
ExtendedRow(row, data) ==
    [row EXCEPT
       !.nominationCloses =
          IF data.nominationCloses = {} THEN @ ELSE The(data.nominationCloses),
       !.votingCloses =
          IF data.votingCloses = {} THEN @ ELSE The(data.votingCloses)]

\* lines 309-391: extendTime.  The claim is about sequences of calls, so
\* the read of the row, the validation and the update are one step; the
\* model stops extending at MaxDate
extendTime(s, id, b) ==
    /\ CanStart(s)
    /\ LET slot == [IdleSlot EXCEPT !.kind = "extendTime"]
       IN IF id \notin DOMAIN positions
            THEN /\ req' = Step(s, Respond(slot, 404, "NOT_FOUND"))
                 /\ UNCHANGED positions
          ELSE IF ExtendValidation(positions[id], b) # "OK"
            THEN /\ req' = Step(s, Respond(slot, 400, ExtendValidation(positions[id], b)))
                 /\ UNCHANGED positions
          ELSE /\ \A d \in ExtendData(positions[id], b).votingCloses : d <= MaxDate
               /\ positions' = [positions EXCEPT ![id] =
                      ExtendedRow(@, ExtendData(positions[id], b))]
               /\ req' = Step(s, Respond(slot, 200, "EXTENDED"))
    /\ UNCHANGED <<now, verifications, ballots, votes, castOk, outbox, issued>>

\* Ids a client may send for a position: the row's and an unknown one
PositionIdInputs == 1..(MaxPositions + 1)

AdminNext ==
    \E s \in Slots :
        \/ \E role \in {"ADMIN", "OFFICER"}, named \in BOOLEAN, b \in PositionBodies :
              createPosition(s, role, named, b)
        \/ \E id \in PositionIdInputs, b \in PositionBodies : updatePosition(s, id, b)
        \/ \E id \in PositionIdInputs, b \in ExtendBodies : extendTime(s, id, b)

\* The admin handlers on an empty Position table
SpecAdmin == Init /\ [][AdminNext]_vars

----------------------------------------------------------------------------
(* Properties *)

\* The castVote requests a step starts in slot s
CastStarted(s) == ~Busy(s) /\ req'[s].kind = "castVote"

\* The Vote rows of ballot t
RowsOf(t) == {v \in BagToSet(votes) : v.ballotId = t}

\* A submission names a position twice
Repeated(vs) == Cardinality(Range(PositionIdsOf(vs))) < Len(vs)

\* C1: every voter has at most one Ballot with status CONSUMED.
C1_OneConsumedBallotPerVoter ==
    \A v \in VoterIds : Cardinality(ConsumedBallots(v)) <= 1

\* C2: of the castVote calls made with one token, concurrent ones included,
\* at most one is answered with success.
C2_OneSuccessPerToken ==
    \A t \in DOMAIN ballots : CopiesIn(t, castOk) <= 1

\* C3: a Ballot is CONSUMED exactly when the Vote table holds rows of it: no
\* state shows Vote rows of a ballot that is not CONSUMED, nor a CONSUMED
\* ballot without its rows.
C3_CommitIndivisible ==
    \A t \in DOMAIN ballots :
        (ballots[t].status = "CONSUMED") <=> (RowsOf(t) # {})

C5_BallotStatusOneWay ==
    [][/\ \A t \in DOMAIN ballots :
              /\ t \in DOMAIN ballots'
              /\ ballots[t].status \in {"ACTIVE", "CONSUMED"}
              /\ ballots[t].status = "CONSUMED" => ballots'[t].status = "CONSUMED"
              /\ ballots[t].status = "ACTIVE"
                    => ballots'[t].status \in {"ACTIVE", "CONSUMED"}
       /\ \A t \in DOMAIN ballots' \ DOMAIN ballots :
              ballots'[t].status = "ACTIVE"]_vars

\* C5 case: a ballot issued by confirmOTP has been consumed by castVote and
\* another ballot is still ACTIVE
C5_Witness ==
    /\ \E t \in DOMAIN ballots :
          ballots[t].status = "CONSUMED" /\ ballots[t].consumedAt # {}
    /\ \E t \in DOMAIN ballots : ballots[t].status = "ACTIVE"

C7_ClosedAtVotingCloses ==
    [][\A s \in Slots :
          (CastStarted(s) /\ req'[s].pc = "cv_existing")
              => \A p \in Range(PositionIdsOf(req'[s].votes)) :
                    PositionTable[p].votingCloses > now]_vars

\* C8: a castVote whose submission names a position twice only ever waits
\* for its rejection: its next step answers 400, writes no Vote row and
\* leaves the Ballot as it is.
C8_RepeatedPositionRejected ==
    [][\A s \in Slots :
          (req[s].kind = "castVote" /\ Busy(s) /\ Repeated(req[s].votes))
              => /\ req[s].pc = "cv_closed"
                 /\ req'[s] # req[s]
                      => (/\ req'[s].pc = "done" /\ req'[s].status = 400
                          /\ votes' = votes /\ ballots' = ballots)]_vars

\* C8 case: a submission with two entries for an open position, on an ACTIVE
\* ballot without votes, is held for rejection
C8_Witness ==
    \E s \in Slots :
        /\ req[s].kind = "castVote" /\ req[s].pc = "cv_closed"
        /\ Repeated(req[s].votes)
        /\ Range(PositionIdsOf(req[s].votes)) \subseteq ListOpenPositions(now)
        /\ ballots[req[s].token].status = "ACTIVE"
        /\ RowsOf(req[s].token) = {}

\* The Challenges of a voter that are unexpired, unconsumed and issued in
\* the last 2 minutes
UnexpiredUnconsumedRecent(voter, t) ==
    {i \in DOMAIN verifications :
        /\ verifications[i].voterId = voter
        /\ verifications[i].expiresAt >= t
        /\ verifications[i].consumedAt = {}
        /\ t - verifications[i].issuedAt <= RateWindow}

\* The Challenges of a voter that are not verified and issued in the last 2
\* minutes
UnverifiedRecent(voter, t) ==
    {i \in DOMAIN verifications :
        /\ verifications[i].voterId = voter
        /\ verifications[i].verifiedAt = {}
        /\ t - verifications[i].issuedAt <= RateWindow}

C10_OneChallengePerWindow ==
    \A i, j \in DOMAIN verifications :
        (/\ i < j
         /\ verifications[i].voterId = verifications[j].voterId
         /\ verifications[i].consumedAt = {} /\ verifications[j].consumedAt = {}
         /\ verifications[i].expiresAt >= verifications[j].issuedAt)
            => verifications[j].issuedAt - verifications[i].issuedAt >= RateWindow

\* C11: a requestOTP whose email or SMS send succeeds has answered 200, and
\* one that has answered 500 is one whose sends both fail: no Challenge has
\* the answer 500 and a send that succeeded.
C11_SuccessWhenAChannelDelivers ==
    \A i \in DOMAIN outbox :
        (outbox[i].email = "sent" \/ outbox[i].sms = "sent")
            => outbox[i].answer = 200

\* The voter owns a CONSUMED Ballot
HasVoted(voter) ==
    \E t \in DOMAIN ballots :
        ballots[t].voterId = voter /\ ballots[t].status = "CONSUMED"

\* Challenge i is the one newest Challenge of its voter that is unverified,
\* unconsumed and not past its expiry
NewestOpen(i) ==
    LET open(j) ==
            /\ verifications[j].voterId = verifications[i].voterId
            /\ verifications[j].verifiedAt = {} /\ verifications[j].consumedAt = {}
            /\ now <= verifications[j].expiresAt
    IN /\ open(i)
       /\ \A j \in DOMAIN verifications :
             (j # i /\ open(j)) => verifications[j].issuedAt < verifications[i].issuedAt

\* The steps of the confirmOTP in slot s after its code was accepted: unless
\* the voter has voted, it marks the Challenge verified, creates an ACTIVE
\* Ballot of the voter, records its token and returns it with status 200
IssuesBallot(s) ==
    LET r == req[s]
        q == req'[s]
    IN (r.kind = "confirmOTP" /\ q # r) =>
        /\ (r.pc = "cf_voted" /\ ~HasVoted(r.voter)) => q.pc = "cf_verify"
        /\ r.pc = "cf_verify" =>
              (q.pc = "cf_create" /\ verifications'[r.ver].verifiedAt # {})
        /\ r.pc = "cf_create" =>
              /\ q.pc = "cf_link" /\ q.token = Len(ballots) + 1
              /\ Len(ballots') = Len(ballots) + 1
              /\ ballots'[q.token].voterId = r.voter
              /\ ballots'[q.token].status = "ACTIVE"
        /\ r.pc = "cf_link" =>
              /\ q.pc = "cf_audit" /\ q.status = 200 /\ q.token = r.token
              /\ verifications'[r.ver].ballotToken = {r.token}
        /\ (r.pc = "cf_audit" /\ r.status = 200) =>
              /\ q.pc = "done" /\ q.status = 200 /\ q.token = r.token
              /\ r.token \in issued'

\* C12: the Challenge of a requestOTP that answers with the delivery failure
\* is in the store, unverified and not expired, and no step removes it; a
\* confirmOTP that presents its code before its expiry, while it is the
\* newest open Challenge of the voter, is accepted and issues a ballot.
C12_ChallengeSurvivesDeliveryFailure ==
    [][/\ \A s \in Slots :
             (req[s].pc = "otp_create" /\ req'[s].result = "DELIVERY_FAILED") =>
                LET i == Len(verifications) + 1 IN
                /\ DOMAIN verifications' = 1 .. i
                /\ verifications'[i].voterId = req[s].voter
                /\ verifications'[i].verifiedAt = {}
                /\ verifications'[i].expiresAt > now
                /\ outbox'[i].answer = 500
       /\ DOMAIN verifications \subseteq DOMAIN verifications'
       /\ \A s \in Slots : \A i \in DOMAIN verifications :
             (/\ req[s].kind = "confirmOTP" /\ req[s].pc = "cf_find"
              /\ req'[s] # req[s]
              /\ outbox[i].answer = 500
              /\ verifications[i].voterId = req[s].voter
              /\ NewestOpen(i) /\ now < verifications[i].expiresAt
              /\ Hash(req[s].otp) = verifications[i].otpHash)
                 => (req'[s].pc = "cf_voted" /\ req'[s].ver = i)
       /\ \A s \in Slots :
             (req[s].ver \in DOMAIN outbox /\ outbox[req[s].ver].answer = 500)
                 => IssuesBallot(s)]_vars

\* C12 case: a confirmOTP has returned the token of a Ballot issued from a
\* Challenge whose requestOTP answered with the delivery failure
C12_Witness ==
    \E s \in Slots : \E i \in DOMAIN verifications :
        /\ req[s].kind = "confirmOTP" /\ req[s].pc = "done" /\ req[s].status = 200
        /\ outbox[i].answer = 500
        /\ verifications[i].ballotToken = {req[s].token}
        /\ req[s].token \in issued

\* C13: the step of requestOTP that creates the Challenge starts both sends
\* and answers at once, with neither send settled; and when a send settles,
\* as a success or as a failure, the send of the other channel and the
\* answer given stay as they are.
C13_SendsIndependentAndUnawaited ==
    [][/\ \A s \in Slots :
             (/\ req[s].pc = "otp_create" /\ req'[s] # req[s]
              /\ Len(outbox') > Len(outbox)) =>
                LET i == Len(outbox) + 1 IN
                /\ outbox'[i].email = "pending" /\ outbox'[i].sms = "pending"
                /\ req'[s].pc = "done"
       /\ \A s \in Slots :
             req[s].kind = "requestOTP" => req[s].pc \in
                {"otp_voted", "otp_rate", "otp_create", "done"}
       /\ \A i \in DOMAIN outbox :
             /\ i \in DOMAIN outbox'
             /\ outbox'[i].answer = outbox[i].answer
             /\ outbox'[i].email # outbox[i].email =>
                   (outbox[i].email = "pending" /\ outbox'[i].sms = outbox[i].sms)
             /\ outbox'[i].sms # outbox[i].sms =>
                   (outbox[i].sms = "pending" /\ outbox'[i].email = outbox[i].email)]_vars

\* C13 case: the email send of a Challenge has failed and its SMS send has
\* succeeded, after the answer
C13_Witness ==
    \E i \in DOMAIN outbox :
        outbox[i].email = "failed" /\ outbox[i].sms = "sent"

\* C14: a confirmOTP that looks for the Challenge at an instant after the
\* expiresAt of every unverified Challenge of the voter is answered 400
\* "no valid OTP" and writes nothing; and the Challenge a confirmOTP goes on
\* with is never one whose expiresAt has passed at that instant.
C14_ExpiredChallengeRejected ==
    [][\A s \in Slots :
          (req[s].kind = "confirmOTP" /\ req[s].pc = "cf_find" /\ req'[s] # req[s]) =>
             /\ (\A i \in DOMAIN verifications :
                    (verifications[i].voterId = req[s].voter
                        /\ verifications[i].verifiedAt = {})
                            => verifications[i].expiresAt < now)
                  => (/\ req'[s].pc = "done" /\ req'[s].status = 400
                      /\ req'[s].result = "NO_VALID_OTP"
                      /\ verifications' = verifications /\ ballots' = ballots
                      /\ issued' = issued)
             /\ req'[s].pc = "cf_voted"
                  => verifications[req'[s].ver].expiresAt >= now]_vars

\* C14 case: a confirmOTP with the code of the Challenge looks for it after
\* its expiresAt
C14_Witness ==
    \E s \in Slots : \E i \in DOMAIN verifications :
        /\ req[s].kind = "confirmOTP" /\ req[s].pc = "cf_find"
        /\ verifications[i].voterId = req[s].voter
        /\ Hash(req[s].otp) = verifications[i].otpHash
        /\ verifications[i].verifiedAt = {}
        /\ verifications[i].expiresAt < now

\* C15: whenever a Ballot is created, its voter owns no CONSUMED Ballot at
\* that moment, however confirmOTP and castVote interleave.
C15_NoBallotAfterVoting ==
    [][\A t \in DOMAIN ballots' \ DOMAIN ballots :
          ~HasVoted(ballots'[t].voterId)]_vars

\* C16: a requestOTP that reaches the check of the voter's ballots while the
\* voter owns a CONSUMED Ballot is answered 400 "already voted", creates no
\* Challenge and starts no send.
C16_VotedVoterGetsNoChallenge ==
    [][\A s \in Slots :
          (/\ req[s].kind = "requestOTP" /\ req[s].pc = "otp_voted"
           /\ req'[s] # req[s] /\ HasVoted(req[s].voter))
              => (/\ req'[s].pc = "done" /\ req'[s].status = 400
                  /\ req'[s].result = "ALREADY_VOTED"
                  /\ verifications' = verifications
                  /\ outbox' = outbox)]_vars

\* C16 case: a requestOTP of a voter with a CONSUMED Ballot has been answered
\* "already voted"
C16_Witness ==
    \E s \in Slots :
        /\ req[s].kind = "requestOTP" /\ req[s].pc = "done"
        /\ req[s].result = "ALREADY_VOTED"
        /\ HasVoted(req[s].voter)

\* C17: every voter has at most one ACTIVE Ballot at any time.
C17_OneActiveBallotPerVoter ==
    \A v \in VoterIds :
        Cardinality({t \in DOMAIN ballots :
            ballots[t].voterId = v /\ ballots[t].status = "ACTIVE"}) <= 1

\* C18: every Vote row names a candidate that exists, that stands for the
\* position of the row and that is APPROVED.
C18_CandidateOfThePosition ==
    \A v \in BagToSet(votes) :
        /\ v.candidateId \in CandidateIds
        /\ CandidateTable[v.candidateId].positionId = v.positionId
        /\ CandidateTable[v.candidateId].status = "APPROVED"

\* C19: no confirmOTP holds back its answer for the audit write: no handler
\* stands at `await logAudit(...)` with its answer decided and not given.
C19_AnswerNeverWaitsForAudit ==
    \A s \in Slots : req[s].pc # "cf_audit"

\* One selection of an APPROVED candidate of a position that is open
ValidSelection(p, c) ==
    /\ PositionTable[p].votingOpens <= now /\ now < PositionTable[p].votingCloses
    /\ CandidateTable[c].positionId = p
    /\ CandidateTable[c].status = "APPROVED"

\* C20: a confirmOTP that presents the code of the voter's newest open
\* Challenge before its expiry, for a voter who has not voted, creates an
\* ACTIVE Ballot of that voter and returns its token, which no client had
\* before.  A castVote with an issued token of an ACTIVE Ballot and one valid
\* selection passes the checks; when the ballot has no Vote row it inserts
\* exactly that one row; and unless the ballot update throws it answers 200
\* with 1 vote recorded, leaves the Vote rows as they are and the ballot
\* CONSUMED.
C20_ConfirmThenCast ==
    [][\A s \in Slots :
        LET r == req[s]
            q == req'[s]
        IN q # r =>
            /\ r.kind = "confirmOTP" =>
                /\ r.pc = "cf_find" =>
                      \A i \in DOMAIN verifications :
                         (/\ verifications[i].voterId = r.voter
                          /\ Hash(r.otp) = verifications[i].otpHash
                          /\ now < verifications[i].expiresAt
                          /\ NewestOpen(i))
                             => (q.pc = "cf_voted" /\ q.ver = i)
                /\ IssuesBallot(s)
                /\ (r.pc = "cf_audit" /\ r.status = 200) =>
                      /\ ballots[r.token].status = "ACTIVE"
                      /\ ballots[r.token].voterId = r.voter
                      /\ r.token \notin issued
            /\ (/\ CastStarted(s) /\ q.pc # "cv_existing"
                /\ q.token \in issued
                /\ ballots[q.token].status = "ACTIVE") =>
                   \A p \in PositionIds : \A c \in CandidateIds :
                       ValidSelection(p, c)
                           => ~CastVote(s, q.token, <<Vote(p, c)>>)
            /\ (r.kind = "castVote" /\ Len(r.votes) = 1) =>
                /\ (r.pc = "cv_existing" /\ RowsOf(r.token) = {})
                      => q.pc = "cv_tx"
                /\ (r.pc = "cv_tx" /\ RowsOf(r.token) = {})
                      => /\ q.pc = "cv_update" /\ q.count = 1
                         /\ votes' = votes (+) SetToBag({
                               [ballotId |-> r.token,
                                positionId |-> r.votes[1].positionId,
                                candidateId |-> r.votes[1].candidateId]})
                /\ (r.pc = "cv_update" /\ q.status # 500)
                      => /\ q.pc = "done" /\ q.status = 200 /\ q.count = 1
                         /\ votes' = votes
                         /\ ballots'[r.token].status = "CONSUMED"]_vars

\* C20 case: a castVote with a token confirmOTP returned has answered 200
\* with 1 vote recorded; the ballot is CONSUMED and has one Vote row
C20_Witness ==
    \E s \in Slots :
        /\ req[s].kind = "castVote" /\ req[s].pc = "done" /\ req[s].status = 200
        /\ req[s].count = 1
        /\ req[s].token \in issued
        /\ \E i \in DOMAIN verifications :
              verifications[i].ballotToken = {req[s].token}
        /\ ballots[req[s].token].status = "CONSUMED"
        /\ Cardinality(RowsOf(req[s].token)) = 1

\* C21: each Challenge yields at most one Ballot, however confirmOTP calls
\* that present its code interleave.  Every Ballot is created by a confirmOTP
\* that has marked its Challenge verified, so no voter has more Ballots than
\* verified Challenges.
C21_OneBallotPerChallenge ==
    \A v \in VoterIds :
        Cardinality({t \in DOMAIN ballots : ballots[t].voterId = v})
            <= Cardinality({i \in DOMAIN verifications :
                    verifications[i].voterId = v /\ verifications[i].verifiedAt # {}})

\* C22: at one instant, getBallot lists a position as open exactly when the
\* window check of castVote accepts a selection of it, and both exactly when
\* votingOpens <= now < votingCloses.
C22_ListingAndCastAgreeHalfOpen ==
    [][\A s \in Slots :
          (~Busy(s) /\ req'[s].kind = "getBallot" /\ req'[s].status = 200) =>
             \A p \in PositionIds :
                /\ \A c \in CandidateIds :
                      (p \in req'[s].listed)
                          <=> (CastValidation(<<Vote(p, c)>>, now) # "WINDOW_CLOSED")
                /\ (p \in req'[s].listed)
                      <=> (/\ PositionTable[p].votingOpens <= now
                           /\ now < PositionTable[p].votingCloses)]_vars

\* The handler in slot s runs from one await to the next: the store call or
\* hash call it waits for returns or throws
HandlerStep(s) ==
    \/ OtpCheckVoted(s)
    \/ OtpRateLimit(s)
    \/ OtpCreate(s)
    \/ CfFind(s)
    \/ CfCheckVoted(s)
    \/ CfMarkVerified(s)
    \/ CfCreateBallot(s)
    \/ CfLink(s)
    \/ CfAudit(s)
    \/ CastReportClosed(s)
    \/ CastExisting(s)
    \/ CastTransaction(s)
    \/ CastConsume(s)
    \/ CastConsumeFails(s)

\* The pipeline with getBallot
LiveNext ==
    \/ Next
    \/ \E s \in Slots : GetBallotRequest(s)

\* The pipeline after a first ballot was issued, when every pending store
\* call and hash call settles
SpecLive ==
    InitVote /\ [][LiveNext]_vars /\ \A s \in Slots : WF_vars(HandlerStep(s))

\* C23: every request of requestOTP, confirmOTP, getBallot and castVote is
\* answered, once: no handler stays in flight for ever, a handler leaves
\* the flight only with its answer, and an answered handler takes no further
\* step (its slot is emptied or taken by a new request).
C23_EveryRequestAnsweredOnce ==
    /\ \A s \in Slots : []<>(~Busy(s))
    /\ [][\A s \in Slots :
            /\ (Busy(s) /\ req'[s].pc \in {"idle", "done"}) => req'[s].pc = "done"
            /\ (~Busy(s) /\ req'[s].kind # "none" /\ req'[s] # req[s]) =>
                  (CanStart(s) /\ req'[s].pc # "idle")
            /\ req[s].pc = "done" =>
                  \/ req'[s] = req[s]
                  \/ req'[s] = IdleSlot
                  \/ CanStart(s) /\ req'[s].kind # "none"]_vars

\* C23 case: a castVote that waited for four store calls has been answered
\* while another handler is in flight
C23_Witness ==
    \E s, t \in Slots :
        /\ req[s].kind = "castVote" /\ req[s].pc = "done" /\ req[s].status = 200
        /\ Busy(t)

\* C24: a castVote that rejects a submission because a position is not open
\* names at least one position, and every position it names is one whose
\* voting window does not contain the instant of the rejection.
C24_RejectionNamesClosedPositions ==
    [][\A s \in Slots :
          (/\ req[s].kind = "castVote" /\ req[s].pc = "cv_closed"
           /\ req'[s].pc = "done" /\ req'[s].result = "WINDOW_CLOSED") =>
              /\ req'[s].listed # {}
              /\ \A p \in req'[s].listed :
                    ~(/\ PositionTable[p].votingOpens <= now
                      /\ now <= PositionTable[p].votingCloses)]_vars

\* C25: a castVote whose submission repeats a position, while every position
\* it names is open and every candidate it names is approved, is rejected as
\* a repeated position, not as window closed or invalid candidate.
C25_RepeatedPositionReported ==
    [][\A s \in Slots :
          (/\ req[s].kind = "castVote" /\ Busy(s) /\ Repeated(req[s].votes)
           /\ Range(PositionIdsOf(req[s].votes)) \subseteq ListOpenPositions(now)
           /\ Range(CandidateIdsOf(req[s].votes))
                 \subseteq ApprovedCandidates(CandidateIdsOf(req[s].votes))
           /\ req'[s].pc = "done")
              => req'[s].result = "REPEATED_POSITION"]_vars

\* The errors castVote returns from its checks
CastRejections ==
    {"TOKEN_REQUIRED", "VOTES_REQUIRED", "INVALID_TOKEN", "ALREADY_VOTED",
     "WINDOW_CLOSED", "INVALID_CANDIDATE", "REPEATED_POSITION", "DUPLICATE_VOTE"}

\* C26: a castVote that returns one of the errors of its checks has written
\* nothing: the step that answers leaves the Vote table and the Ballots as
\* they are and the handler has committed no row (count = 0), and a castVote
\* handler that has committed no row has left the Vote table and the Ballots
\* as they are in each of its steps.
C26_RejectedCastWritesNothing ==
    [][\A s \in Slots :
          (req'[s].kind = "castVote" /\ req'[s] # req[s]) =>
             /\ (req'[s].pc = "done" /\ req'[s].result \in CastRejections) =>
                   /\ req'[s].status \in {400, 404}
                   /\ req'[s].count = 0
                   /\ votes' = votes /\ ballots' = ballots
             /\ req'[s].count = 0 => (votes' = votes /\ ballots' = ballots)]_vars

\* C26 case: a castVote has been rejected for a prior vote, on a ballot that
\* is ACTIVE and has Vote rows
C26_Witness ==
    \E s \in Slots :
        /\ req[s].kind = "castVote" /\ req[s].pc = "done"
        /\ req[s].status = 400 /\ req[s].result = "DUPLICATE_VOTE"
        /\ ballots[req[s].token].status = "ACTIVE"
        /\ RowsOf(req[s].token) # {}

\* C27: a castVote whose ballot already has a Vote row for a position of its
\* submission is rejected as a duplicate vote and adds no row, and a ballot
\* that is ACTIVE and has Vote rows gains no further row, for any position.
C27_NoRowsAfterFirstRows ==
    [][/\ \A s \in Slots :
             (/\ req[s].kind = "castVote" /\ req[s].pc = "cv_existing"
              /\ req'[s] # req[s]
              /\ ExistingVotes(req[s].token, PositionIdsOf(req[s].votes)) # {})
                 => (/\ req'[s].pc = "done" /\ req'[s].result = "DUPLICATE_VOTE"
                     /\ votes' = votes)
       /\ \A t \in DOMAIN ballots :
             (ballots[t].status = "ACTIVE" /\ RowsOf(t) # {})
                 => \A v \in BagToSet(votes') :
                       v.ballotId = t => CopiesIn(v, votes') = CopiesIn(v, votes)]_vars

\* The voter has an email address and a phone number on file
HasContacts(voter) == VoterTable[voter].email /\ VoterTable[voter].phone

\* C28: requestOTP answers not-found for a registration number no voter has
\* and ineligible for a voter whose status is not ELIGIBLE; for a voter
\* without an email or a phone the contact check answers missing-contact;
\* and none of these requests creates a Challenge or starts a send: the
\* table holds Challenges of eligible voters with both contacts only, and
\* a send is started only with a Challenge.
C28_RequestErrorsCreateNothing ==
    [][/\ \A s \in Slots :
            LET r == req[s]
                q == req'[s]
            IN /\ (~Busy(s) /\ q.kind = "requestOTP") =>
                     /\ (q.voter # "" /\ q.voter \notin VoterIds) =>
                           (/\ q.pc = "done" /\ q.status = 404
                            /\ q.result = "NOT_FOUND")
                     /\ (q.voter \in VoterIds
                           /\ VoterTable[q.voter].status # "ELIGIBLE") =>
                           (/\ q.pc = "done" /\ q.status = 400
                            /\ q.result = "INELIGIBLE")
                     /\ verifications' = verifications /\ outbox' = outbox
               /\ (/\ r.kind = "requestOTP" /\ r.pc = "otp_create" /\ q # r
                   /\ ~HasContacts(r.voter)) =>
                     /\ q.pc = "done" /\ q.status = 400
                     /\ q.result \in {"EMAIL_MISSING", "PHONE_MISSING"}
                     /\ verifications' = verifications /\ outbox' = outbox
       /\ \A i \in DOMAIN verifications' :
             /\ verifications'[i].voterId \in VoterIds
             /\ VoterTable[verifications'[i].voterId].status = "ELIGIBLE"
             /\ HasContacts(verifications'[i].voterId)
       /\ DOMAIN outbox' = DOMAIN verifications']_vars

\* C28 case: the requestOTP of a voter without a phone number has been
\* answered missing-contact and the voter has no Challenge
C28_Witness ==
    \E s \in Slots :
        /\ req[s].kind = "requestOTP" /\ req[s].pc = "done"
        /\ req[s].status = 400
        /\ \/ req[s].result = "PHONE_MISSING" /\ ~VoterTable[req[s].voter].phone
           \/ req[s].result = "EMAIL_MISSING" /\ ~VoterTable[req[s].voter].email
        /\ \A i \in DOMAIN verifications : verifications[i].voterId # req[s].voter

\* C29: a confirmOTP whose code does not match the Challenge it finds is
\* answered 401 invalid OTP, and neither its lookup nor its answer changes a
\* Challenge or creates a Ballot.  The store is as it was before the
\* attempt, whatever the number of attempts, so a confirmOTP that then
\* presents the code of the voter's newest open Challenge before its expiry
\* is accepted.
C29_WrongCodeChangesNothing ==
    [][\A s \in Slots :
        LET r == req[s]
            q == req'[s]
            valid == ValidVerifications(r.voter, now)
        IN (r.kind = "confirmOTP" /\ q # r) =>
            /\ (/\ r.pc = "cf_find" /\ valid # {}
                /\ \A i \in MostRecent(valid) :
                      Hash(r.otp) # verifications[i].otpHash) =>
                  /\ q.pc = "cf_audit" /\ q.status = 401
                  /\ q.result = "INVALID_OTP"
                  /\ verifications' = verifications /\ ballots' = ballots
            /\ (r.pc = "cf_audit" /\ r.status = 401) =>
                  /\ q.pc = "done" /\ q.status = 401 /\ q.result = "INVALID_OTP"
                  /\ verifications' = verifications /\ ballots' = ballots
                  /\ issued' = issued
            /\ r.pc = "cf_find" =>
                  \A i \in DOMAIN verifications :
                     (/\ verifications[i].voterId = r.voter
                      /\ Hash(r.otp) = verifications[i].otpHash
                      /\ now < verifications[i].expiresAt
                      /\ NewestOpen(i))
                         => (q.pc = "cf_voted" /\ q.ver = i)]_vars

\* C29 case: a confirmOTP has been answered invalid OTP; the Challenge is
\* unverified and without a Ballot, and a confirmOTP with its code is about
\* to look it up
C29_Witness ==
    \E s, t \in Slots : \E i \in DOMAIN verifications :
        /\ req[s].kind = "confirmOTP" /\ req[s].pc = "done"
        /\ req[s].status = 401 /\ req[s].result = "INVALID_OTP"
        /\ verifications[i].voterId = req[s].voter
        /\ verifications[i].verifiedAt = {} /\ verifications[i].ballotToken = {}
        /\ ballots = <<>>
        /\ req[t].kind = "confirmOTP" /\ req[t].pc = "cf_find"
        /\ req[t].voter = req[s].voter
        /\ Hash(req[t].otp) = verifications[i].otpHash
        /\ NewestOpen(i)

\* C30: a Challenge is never deleted; its owner, hash and expiry never
\* change; verified-at, once set, is never unset or changed; and no field
\* other than verified-at, consumed-at and the ballot token is ever written
\* after creation.
C30_ChallengeWrittenOnce ==
    [][\A i \in DOMAIN verifications :
          /\ i \in DOMAIN verifications'
          /\ verifications'[i].voterId = verifications[i].voterId
          /\ verifications'[i].otpHash = verifications[i].otpHash
          /\ verifications'[i].expiresAt = verifications[i].expiresAt
          /\ verifications'[i].issuedAt = verifications[i].issuedAt
          /\ verifications[i].verifiedAt # {}
                => verifications'[i].verifiedAt = verifications[i].verifiedAt]_vars

\* Challenge j is the one most recently issued among the Challenges of its
\* voter that confirmOTP may find at the present instant
NewestValid(j) ==
    LET valid == ValidVerifications(verifications[j].voterId, now)
    IN /\ j \in valid
       /\ \A i \in valid \ {j} : verifications[i].issuedAt < verifications[j].issuedAt

\* C31: confirmOTP compares the presented code with the most recently issued
\* Challenge of the voter that is unverified, unconsumed and unexpired, and
\* with no other: when an older such Challenge exists, its code (unless it
\* is also the code of the newest) is answered invalid OTP, and the code of
\* the newest is accepted for the newest.
C31_OnlyNewestChallengeCompared ==
    [][\A s \in Slots :
        LET r == req[s]
            q == req'[s]
        IN (r.kind = "confirmOTP" /\ r.pc = "cf_find" /\ q # r) =>
            \A j \in ValidVerifications(r.voter, now) :
                NewestValid(j) =>
                    /\ Hash(r.otp) = verifications[j].otpHash
                          => (q.pc = "cf_voted" /\ q.ver = j)
                    /\ Hash(r.otp) # verifications[j].otpHash
                          => (/\ q.pc = "cf_audit" /\ q.status = 401
                              /\ q.result = "INVALID_OTP")]_vars

\* C31 case: the voter has two open Challenges issued a minute apart with
\* different codes, and a confirmOTP that presented the code of the older
\* one is about to be answered invalid OTP
C31_Witness ==
    \E s \in Slots : \E i, j \in DOMAIN verifications :
        /\ req[s].kind = "confirmOTP" /\ req[s].pc = "cf_audit"
        /\ req[s].status = 401
        /\ {i, j} \subseteq ValidVerifications(req[s].voter, now)
        /\ verifications[i].issuedAt < verifications[j].issuedAt
        /\ Hash(req[s].otp) = verifications[i].otpHash
        /\ verifications[i].otpHash # verifications[j].otpHash

\* C32: a Ballot is issued only to a voter whose status is ELIGIBLE when it
\* is issued: no Ballot belongs to a voter the roster shows as not ELIGIBLE
\* at the time of the confirmOTP.
C32_BallotsOfEligibleVotersOnly ==
    \A t \in DOMAIN ballots :
        VoterTable[ballots[t].voterId].status = "ELIGIBLE"

\* C33: confirmation is all-or-nothing.  In every state a Challenge is
\* verified exactly when a Ballot was created from it, so every voter has as
\* many Ballots as verified Challenges; and a Challenge that records a
\* ballot token is verified and its token is a Ballot of the same voter.
C33_ConfirmationAllOrNothing ==
    /\ \A v \in VoterIds :
          Cardinality({i \in DOMAIN verifications :
                verifications[i].voterId = v /\ verifications[i].verifiedAt # {}})
            = Cardinality({t \in DOMAIN ballots : ballots[t].voterId = v})
    /\ \A i \in DOMAIN verifications : \A t \in verifications[i].ballotToken :
          /\ verifications[i].verifiedAt # {}
          /\ t \in DOMAIN ballots
          /\ ballots[t].voterId = verifications[i].voterId

\* C34: after any sequence of createPosition, updatePosition and extendTime
\* calls, every stored Position has votingOpens < votingCloses and
\* nominationCloses <= votingOpens.
C34_StoredWindowsOrdered ==
    \A i \in DOMAIN positions :
        /\ positions[i].votingOpens < positions[i].votingCloses
        /\ positions[i].nominationCloses <= positions[i].votingOpens

====
